---- MODULE Spec2Model ----
(***************************************************************************)
(* Model of src/src/excel_mcp/data.py: the range reads (read_excel_range,  *)
(* read_excel_range_with_metadata), the formula resolution chain           *)
(* (_build_formula_evaluator, _evaluate_formula_cell, _get_cached_value)   *)
(* and the writer (write_data, _write_data_to_worksheet).                  *)
(*                                                                         *)
(* Python strings are sequences of one-character strings, Python None is   *)
(* the value None below, and an optional argument that the code only tests *)
(* for truth (end_cell, sheet_name, data) is the empty sequence when it is *)
(* absent.  A call runs from "idle" to "done"; what the collaborators do   *)
(* (openpyxl, xlcalculator, the validation lookup) is chosen in each step: *)
(* they answer or they raise.                                              *)
(***************************************************************************)
EXTENDS Integers, Sequences, FiniteSets, TLC

\* Bounds of the model: the grid the workbooks and the references live in,
\* and the side of the largest matrix handed to write_data.
MaxRow == 2
MaxCol == 2
MaxData == 2

----------------------------------------------------------------------------
\* Strings

Letters == <<"A", "B", "C", "D", "E", "F", "G", "H", "I", "J", "K", "L", "M",
             "N", "O", "P", "Q", "R", "S", "T", "U", "V", "W", "X", "Y", "Z">>

Digits == <<"0", "1", "2", "3", "4", "5", "6", "7", "8", "9">>

IsLetter(ch) == \E i \in 1..26 : Letters[i] = ch

IsDigit(ch) == \E i \in 1..10 : Digits[i] = ch

LetterIndex(ch) == CHOOSE i \in 1..26 : Letters[i] = ch

DigitValue(ch) == (CHOOSE i \in 1..10 : Digits[i] = ch) - 1

\* str(n) for n >= 0
RECURSIVE IntToStr(_)
IntToStr(n) ==
    IF n < 10 THEN <<Digits[n + 1]>>
    ELSE IntToStr(n \div 10) \o <<Digits[(n % 10) + 1]>>

\* openpyxl.utils.get_column_letter: bijective base 26
RECURSIVE get_column_letter(_)
get_column_letter(col) ==
    IF col <= 26 THEN <<Letters[col]>>
    ELSE get_column_letter((col - 1) \div 26) \o <<Letters[((col - 1) % 26) + 1]>>

\* f"{get_column_letter(col)}{row}"
CellAddress(row, col) == get_column_letter(col) \o IntToStr(row)

\* ':' in s
HasColon(s) == \E i \in 1..Len(s) : s[i] = ":"

\* s.split(':')
RECURSIVE SplitColon(_)
SplitColon(s) ==
    IF ~HasColon(s) THEN <<s>>
    ELSE LET i == CHOOSE k \in 1..Len(s) :
                      s[k] = ":" /\ \A j \in 1..(k - 1) : s[j] # ":"
         IN  <<SubSeq(s, 1, i - 1)>> \o SplitColon(SubSeq(s, i + 1, Len(s)))

\* s.replace("'", "''")
RECURSIVE DoubleQuotes(_)
DoubleQuotes(s) ==
    IF s = <<>> THEN <<>>
    ELSE (IF Head(s) = "'" THEN <<"'", "'">> ELSE <<Head(s)>>)
             \o DoubleQuotes(Tail(s))

\* The length of the longest prefix of s made of letters (or else of digits).
RECURSIVE PrefixLen(_, _)
PrefixLen(s, letters) ==
    IF s = <<>> THEN 0
    ELSE IF (IF letters THEN IsLetter(Head(s)) ELSE IsDigit(Head(s)))
         THEN 1 + PrefixLen(Tail(s), letters)
         ELSE 0

RECURSIVE ColumnIndex(_)
ColumnIndex(s) ==
    IF s = <<>> THEN 0
    ELSE 26 * ColumnIndex(SubSeq(s, 1, Len(s) - 1)) + LetterIndex(s[Len(s)])

RECURSIVE StrToInt(_)
StrToInt(s) ==
    IF s = <<>> THEN 0
    ELSE 10 * StrToInt(SubSeq(s, 1, Len(s) - 1)) + DigitValue(s[Len(s)])

\* cell_utils.parse_cell_range, as the reads and the writer use it: the first
\* reference of the string, column letters then row digits, gives (row, col);
\* anything else is a ValueError.  Only the first two coordinates are read.
parse_cell_range(ref) ==
    LET first   == SplitColon(ref)[1]
        nLetter == PrefixLen(first, TRUE)
        rest    == SubSeq(first, nLetter + 1, Len(first))
        nDigit  == PrefixLen(rest, FALSE)
        row     == StrToInt(rest)
    IN  IF nLetter > 0 /\ nDigit > 0 /\ nDigit = Len(rest) /\ row >= 1
        THEN [ok |-> TRUE, row |-> row, col |-> ColumnIndex(SubSeq(first, 1, nLetter))]
        ELSE [ok |-> FALSE, row |-> 0, col |-> 0]

----------------------------------------------------------------------------
\* Values and cells

None == [type |-> "NoneType", v |-> <<>>]

IntValue(n) == [type |-> "int", v |-> IntToStr(n)]

StrValue(s) == [type |-> "str", v |-> s]

\* the formula text of the modelled formula cells, "=F"
FormulaText == StrValue(<<"=", "F">>)

\* what the evaluator computes for a formula, and what the file caches for it
ComputedValue == [type |-> "int", v |-> <<"8">>]

CachedValue == [type |-> "int", v |-> <<"7">>]

\* A stored cell: its value and data_type as the formula view of the workbook
\* shows them, and the value the data_only view of the same file shows.
EmptyCell == [value |-> None, data_type |-> "n", cached |-> None]

LiteralCell == [value |-> IntValue(5), data_type |-> "n", cached |-> IntValue(5)]

FormulaCellCached == [value |-> FormulaText, data_type |-> "f", cached |-> CachedValue]

FormulaCellUncached == [value |-> FormulaText, data_type |-> "f", cached |-> None]

\* a string that starts with "=" in a cell whose type is not "f"
UntypedFormulaCell ==
    [value |-> StrValue(<<"=", "G">>), data_type |-> "s", cached |-> StrValue(<<"=", "G">>)]

\* a cell of type "f" whose value is an object (an array formula), not a str
ArrayFormulaCell ==
    [value |-> [type |-> "ArrayFormula", v |-> <<"=", "H">>], data_type |-> "f",
     cached |-> CachedValue]

\* A worksheet is a function from the positions <<row, col>> of its stored cells.
NoCells == [p \in {} |-> EmptyCell]

CellAt(ws, row, col) ==
    IF <<row, col>> \in DOMAIN ws THEN ws[<<row, col>>] ELSE EmptyCell

SetMin(S) == CHOOSE x \in S : \A y \in S : x <= y

SetMax(S) == CHOOSE x \in S : \A y \in S : x >= y

\* Worksheet.min_row, max_row, min_column, max_column: 1 on a sheet without cells
min_row(ws) == IF DOMAIN ws = {} THEN 1 ELSE SetMin({p[1] : p \in DOMAIN ws})

max_row(ws) == IF DOMAIN ws = {} THEN 1 ELSE SetMax({p[1] : p \in DOMAIN ws})

min_column(ws) == IF DOMAIN ws = {} THEN 1 ELSE SetMin({p[2] : p \in DOMAIN ws})

max_column(ws) == IF DOMAIN ws = {} THEN 1 ELSE SetMax({p[2] : p \in DOMAIN ws})

----------------------------------------------------------------------------
\* The formula resolution chain

\* What one call evaluator.evaluate(token) can do.
EvalOutcomes ==
    { [kind |-> "return", val |-> ComputedValue],
      [kind |-> "return", val |-> None],
      [kind |-> "KeyError", val |-> None],
      [kind |-> "Exception", val |-> None] }

\* What one call of a fallback loader can do.
Returned(val) == [kind |-> "return", val |-> val]

Raised == [kind |-> "raise", val |-> None]

\* _build_formula_evaluator: None when xlcalculator is not installed or when
\* compiling the workbook raises
_build_formula_evaluator(installed, compiles) ==
    IF ~installed THEN "None"
    ELSE IF compiles THEN "Evaluator" ELSE "None"

\* lines 51-55: the two tokens, in the order they are tried
Tokens(sheet_name, cell_address) ==
    << sheet_name \o <<"!">> \o cell_address,
       <<"'">> \o DoubleQuotes(sheet_name) \o <<"'", "!">> \o cell_address >>

\* lines 58-60: the call returned a value that is not None
ReturnsComputed(o) == o.kind = "return" /\ o.val # None

\* TriesNextToken with every exception treated as the KeyError is
TriesNextToken_AnyError(o) ==
    \/ o.kind = "return" /\ o.val = None
    \/ o.kind \in {"KeyError", "Exception"}

\* lines 56-72: the for loop goes on to the next token after a call that
\* returned None (no return, no exception) or raised KeyError (continue);
\* any other exception breaks out of the loop
TriesNextToken(o) ==
    \/ o.kind = "return" /\ o.val = None
    \/ o.kind = "KeyError"

\* lines 56-72: the calls the loop makes from token i on, outcomes[i] being
\* what the evaluator does with tokens[i]
RECURSIVE EvaluatorCalls(_, _, _)
EvaluatorCalls(tokens, outcomes, i) ==
    IF i > Len(tokens) THEN <<>>
    ELSE <<[token |-> tokens[i], outcome |-> outcomes[i]]>>
            \o (IF ReturnsComputed(outcomes[i]) \/ ~TriesNextToken(outcomes[i])
                THEN <<>>
                ELSE EvaluatorCalls(tokens, outcomes, i + 1))

\* FallbackOrDefault without the test of the cached value against None
FallbackOrDefault_NoNullTest(fallback_loader, loaded, default_value) ==
    IF fallback_loader # "None" /\ loaded.kind = "return"
    THEN loaded.val
    ELSE default_value

\* lines 73-80: the value after the evaluator gave none; loaded is what
\* fallback_loader(row, column) does
FallbackOrDefault(fallback_loader, loaded, default_value) ==
    IF fallback_loader # "None" /\ loaded.kind = "return" /\ loaded.val # None
    THEN loaded.val
    ELSE default_value

\* _evaluate_formula_cell: the value it returns, the evaluator calls it made
\* and whether it called the fallback loader
_evaluate_formula_cell(evaluator, sheet_name, cell_address, fallback_loader, default_value, outcomes, loaded) ==
    LET calls == IF evaluator # "None"
                 THEN EvaluatorCalls(Tokens(sheet_name, cell_address), outcomes, 1)
                 ELSE <<>>
        computed == calls # <<>> /\ ReturnsComputed(calls[Len(calls)].outcome)
    IN  IF computed
        THEN [value |-> calls[Len(calls)].outcome.val, calls |-> calls,
              loader_called |-> FALSE]
        ELSE [value |-> FallbackOrDefault(fallback_loader, loaded, default_value),
              calls |-> calls,
              loader_called |-> fallback_loader # "None"]

\* OpenValuesWorkbook that does not remember a load_workbook that raised
OpenValuesWorkbook_Retry(c, opened) ==
    IF opened = "IOError"
    THEN [c EXCEPT !.opens = c.opens + 1]
    ELSE IF opened = "no_sheet"
    THEN [c EXCEPT !.wb_values = "None", !.values_handle = "closed",
                   !.fallback_loader_failed = TRUE, !.opens = c.opens + 1]
    ELSE [c EXCEPT !.wb_values = "Workbook", !.ws_values = "Worksheet",
                   !.values_handle = "open", !.opens = c.opens + 1]

\* lines 275-293: the first use of the loader opens the data_only workbook;
\* opened is what load_workbook and the sheet lookup do: "ok", "IOError"
\* (load_workbook raises) or "no_sheet" (the sheet is not in the workbook)
OpenValuesWorkbook(c, opened) ==
    IF opened = "IOError"
    THEN [c EXCEPT !.fallback_loader_failed = TRUE, !.opens = c.opens + 1]
    ELSE IF opened = "no_sheet"
    THEN [c EXCEPT !.wb_values = "None", !.values_handle = "closed",
                   !.fallback_loader_failed = TRUE, !.opens = c.opens + 1]
    ELSE [c EXCEPT !.wb_values = "Workbook", !.ws_values = "Worksheet",
                   !.values_handle = "open", !.opens = c.opens + 1]

\* _get_cached_value(row, col): c holds the closure's variables (wb_values,
\* ws_values, fallback_loader_failed), the state of the data_only handle and
\* the numbers of load_workbook(data_only=True) calls (opens) and of calls of
\* the loader (loads) so far; ws is the sheet
\* as the file stores it; readable is whether reading the cell succeeds.
\* Gives the closure's variables after the call and what the call did.
_get_cached_value(c0, ws, row, col, opened, readable) ==
    LET c == [c0 EXCEPT !.loads = c0.loads + 1]
    IN
    IF c.fallback_loader_failed THEN [c |-> c, ret |-> Returned(None)]
    ELSE LET c1 == IF c.wb_values = "None" THEN OpenValuesWorkbook(c, opened) ELSE c
         IN  IF c1.fallback_loader_failed \/ c1.ws_values = "None"
             THEN [c |-> c1, ret |-> Returned(None)]
             ELSE IF readable
                  THEN [c |-> c1, ret |-> Returned(CellAt(ws, row, col).cached)]
                  ELSE [c |-> c1, ret |-> Raised]

\* lines 365-373: the formula text of a cell, None when it is not a formula
FormulaTextOf(cell) ==
    IF cell.data_type = "f"
    THEN (IF cell.value.type = "str" THEN cell.value ELSE None)
    ELSE IF cell.value.type = "str" /\ cell.value.v # <<>> /\ Head(cell.value.v) = "="
         THEN cell.value
         ELSE None

----------------------------------------------------------------------------
\* Range resolution

\* lines 307-308 (99-100): a start cell that holds a colon is split into the
\* start and the end; more or fewer than two parts cannot be unpacked
SplitStart(start_cell, end_cell) ==
    IF HasColon(start_cell)
    THEN LET parts == SplitColon(start_cell)
         IN  IF Len(parts) = 2
             THEN [ok |-> TRUE, start_cell |-> parts[1], end_cell |-> parts[2]]
             ELSE [ok |-> FALSE, start_cell |-> start_cell, end_cell |-> end_cell]
    ELSE [ok |-> TRUE, start_cell |-> start_cell, end_cell |-> end_cell]

\* lines 330 (122): the sheet is empty
IsEmptySheet(ws) ==
    max_row(ws) = 1 /\ max_column(ws) = 1 /\ CellAt(ws, 1, 1).value = None

\* lines 120-128: read_excel_range without an end cell
PlainDefaultRegion(ws, start_cell, start) ==
    IF IsEmptySheet(ws)
    THEN [start_row |-> start.row, start_col |-> start.col,
          end_row |-> start.row, end_col |-> start.col]
    ELSE [start_row |-> min_row(ws), start_col |-> min_column(ws),
          end_row |-> max_row(ws), end_col |-> max_column(ws)]

\* lines 328-338: read_excel_range_with_metadata without an end cell
MetaDefaultRegion(ws, start_cell, start) ==
    IF IsEmptySheet(ws)
    THEN [start_row |-> start.row, start_col |-> start.col,
          end_row |-> start.row, end_col |-> start.col]
    ELSE IF start_cell = <<"A", "1">>
         THEN [start_row |-> min_row(ws), start_col |-> min_column(ws),
               end_row |-> max_row(ws), end_col |-> max_column(ws)]
         ELSE [start_row |-> start.row, start_col |-> start.col,
               end_row |-> max_row(ws), end_col |-> max_column(ws)]

\* StartOutside with "and" in the place of "or"
StartOutside_Both(ws, region) ==
    region.start_row > max_row(ws) /\ region.start_col > max_column(ws)

\* lines 341 (131): the start is outside the sheet's data boundary
StartOutside(ws, region) ==
    region.start_row > max_row(ws) \/ region.start_col > max_column(ws)

\* lines 306-349 (98-139): from the arguments to the region to read:
\* kind "DataError", "empty" (the boundary check returns early) or "region"
ResolveRegion(ws, start_cell0, end_cell0, metadata) ==
    LET split == SplitStart(start_cell0, end_cell0)
        start == parse_cell_range(split.start_cell \o <<":">> \o split.start_cell)
        end   == parse_cell_range(split.end_cell \o <<":">> \o split.end_cell)
        none  == [start_row |-> 0, start_col |-> 0, end_row |-> 0, end_col |-> 0]
        region ==
            IF split.end_cell # <<>>
            THEN [start_row |-> start.row, start_col |-> start.col,
                  end_row |-> end.row, end_col |-> end.col]
            ELSE IF metadata THEN MetaDefaultRegion(ws, split.start_cell, start)
                 ELSE PlainDefaultRegion(ws, split.start_cell, start)
    IN  IF ~split.ok
        THEN [kind |-> "DataError", msg |-> "lower layer",
              start_cell |-> start_cell0, region |-> none]
        ELSE IF ~start.ok
        THEN [kind |-> "DataError", msg |-> "Invalid start cell",
              start_cell |-> split.start_cell, region |-> none]
        ELSE IF split.end_cell # <<>> /\ ~end.ok
        THEN [kind |-> "DataError", msg |-> "Invalid end cell",
              start_cell |-> split.start_cell, region |-> none]
        ELSE IF StartOutside(ws, region)
        THEN [kind |-> "empty", msg |-> "",
              start_cell |-> split.start_cell, region |-> region]
        ELSE [kind |-> "region", msg |-> "",
              start_cell |-> split.start_cell, region |-> region]

\* lines 143-146: the values of one row of the region
RECURSIVE RowData(_, _, _, _)
RowData(ws, row, col, end_col) ==
    IF col > end_col THEN <<>>
    ELSE <<CellAt(ws, row, col).value>> \o RowData(ws, row, col + 1, end_col)

\* PlainRows without the test that drops the rows that hold no value
RECURSIVE PlainRows_KeepAll(_, _, _)
PlainRows_KeepAll(ws, region, row) ==
    IF row > region.end_row THEN <<>>
    ELSE <<RowData(ws, row, region.start_col, region.end_col)>>
            \o PlainRows_KeepAll(ws, region, row + 1)

\* lines 141-148: the rows of the region, a row kept when it has a value
RECURSIVE PlainRows(_, _, _)
PlainRows(ws, region, row) ==
    IF row > region.end_row THEN <<>>
    ELSE LET row_data == RowData(ws, row, region.start_col, region.end_col)
         IN  (IF \E k \in 1..Len(row_data) : row_data[k] # None
              THEN <<row_data>> ELSE <<>>)
                 \o PlainRows(ws, region, row + 1)

\* cell_validation.get_data_validation_for_cell: in the modelled workbooks
\* the data validation covers the cells that hold a number
get_data_validation_for_cell(ws, row, col) ==
    IF CellAt(ws, row, col).value.type = "int" THEN "info" ELSE "None"

\* lines 397-403: the validation entry of a cell record
ValidationEntry(include_validation, ws, row, col) ==
    IF ~include_validation THEN "absent"
    ELSE IF get_data_validation_for_cell(ws, row, col) # "None" THEN "info"
         ELSE "has_validation_false"

----------------------------------------------------------------------------
\* Inputs

SheetName == <<"O", "'", "s">>

OtherSheet == <<"T">>

Grid == (1..MaxRow) \X (1..MaxCol)

GridRefs == {CellAddress(p[1], p[2]) : p \in Grid}

LastRef == CellAddress(MaxRow, MaxCol)

Malformed == <<"1", "A">>

StartCells ==
    GridRefs \cup {Malformed, <<"A", "1", ":">> \o LastRef, LastRef \o <<":">>,
                   <<"A", "1", ":", "A", "1", ":", "A", "1">>}

EndCells == GridRefs \cup {<<>>, Malformed}

\* sheets of at most two cells, each holding a number
LiteralSheets ==
    {[p \in D |-> LiteralCell] : D \in {D \in SUBSET Grid : Cardinality(D) <= 2}}

\* sheets whose cells A1 and B1 hold formulas, values or nothing
FormulaSheets ==
    {[p \in {q \in {<<1, 1>>, <<1, 2>>} :
                 (IF q = <<1, 1>> THEN k[1] ELSE k[2]) # EmptyCell}
         |-> IF p = <<1, 1>> THEN k[1] ELSE k[2]] :
       k \in {EmptyCell, LiteralCell, FormulaCellCached, FormulaCellUncached,
              UntypedFormulaCell, ArrayFormulaCell}
             \X {EmptyCell, LiteralCell, FormulaCellCached, ArrayFormulaCell}}

\* the matrix of r rows and c columns write_data is given
Matrix(r, c) == [i \in 1..r |-> [j \in 1..c |-> IntValue(10 * i + j)]]

DataInputs == {<<>>} \cup {Matrix(r, c) : r \in 1..MaxData, c \in 0..MaxData}

Workbook(ws, active) == [sheets |-> [n \in {SheetName} |-> ws], active |-> active]

NoRequest ==
    [op |-> "none", sheet_name |-> <<>>, start_cell |-> <<>>, end_cell |-> <<>>,
     include_validation |-> TRUE, evaluate_formulas |-> FALSE, data |-> <<>>,
     evaluator |-> "None", fallback_loader |-> "None", cell_address |-> <<>>,
     default_value |-> None]

ReadRequest(op, sheet_name, start_cell, end_cell, include_validation, evaluate_formulas) ==
    [NoRequest EXCEPT !.op = op, !.sheet_name = sheet_name, !.start_cell = start_cell,
                      !.end_cell = end_cell, !.include_validation = include_validation,
                      !.evaluate_formulas = evaluate_formulas]

\* reads of sheets that differ in their bounds, with every start and end
RangeScenarios ==
    {[file |-> Workbook(ws, SheetName), req |-> r] :
       ws \in LiteralSheets,
       r \in {ReadRequest("read_excel_range", SheetName, s, e, TRUE, FALSE) :
                s \in StartCells, e \in EndCells}
             \cup {ReadRequest("read_excel_range_with_metadata", SheetName, s, e, v, FALSE) :
                     s \in StartCells, e \in EndCells, v \in BOOLEAN}
             \cup {ReadRequest(op, OtherSheet, <<"A", "1">>, <<>>, TRUE, FALSE) :
                     op \in {"read_excel_range", "read_excel_range_with_metadata"}}}

\* reads with evaluate_formulas of sheets that differ in their cells
FormulaScenarios ==
    {[file |-> Workbook(ws, SheetName), req |-> r] :
       ws \in FormulaSheets,
       r \in {ReadRequest("read_excel_range_with_metadata", SheetName, s, e, v, TRUE) :
                s \in GridRefs, e \in {<<>>, LastRef}, v \in BOOLEAN}}

WriteScenarios ==
    {[file |-> Workbook(ws, active),
      req |-> [NoRequest EXCEPT !.op = "write_data", !.sheet_name = n,
                                !.data = d, !.start_cell = s]] :
       ws \in {NoCells, [p \in {<<1, 1>>} |-> LiteralCell]},
       active \in {SheetName, <<>>},
       n \in {<<>>, SheetName, OtherSheet},
       d \in DataInputs,
       s \in {<<"A", "1">>, LastRef, Malformed}}

EvaluateScenarios ==
    {[file |-> Workbook(NoCells, SheetName),
      req |-> [NoRequest EXCEPT !.op = "_evaluate_formula_cell", !.evaluator = ev,
                                !.sheet_name = n, !.cell_address = a,
                                !.fallback_loader = fl, !.default_value = FormulaText]] :
       ev \in {"None", "Evaluator"}, n \in {SheetName, OtherSheet}, a \in GridRefs,
       fl \in {"None", "loader"}}

Scenarios == RangeScenarios \cup FormulaScenarios \cup WriteScenarios \cup EvaluateScenarios

----------------------------------------------------------------------------
\* State

VARIABLES
    file,        \* the workbook as the file stores it: its sheets, the active one
    before,      \* the file as it was when the call began
    req,         \* the call: the function and its arguments
    pc,          \* "idle", "meta_loop", "write_loop" or "done"
    wb,          \* the primary workbook handle and the sheets it holds in memory
    loc,         \* the locals of the running function and of its closure
    range_data,  \* the dictionary read_excel_range_with_metadata builds
    result,      \* how the call ended and what it returned
    last         \* what the last cell handled did to the evaluator and the loader

vars == <<file, before, req, pc, wb, loc, range_data, result, last>>

NoLocals ==
    [formula_evaluator |-> "None", fallback_loader |-> "None",
     wb_values |-> "None", ws_values |-> "None", fallback_loader_failed |-> FALSE,
     values_handle |-> "unopened", opens |-> 0, loads |-> 0,
     sheet_name |-> <<>>, start_cell |-> <<>>,
     start_row |-> 0, start_col |-> 0, end_row |-> 0, end_col |-> 0,
     row |-> 0, col |-> 0]

NoRangeData == [range |-> <<>>, sheet_name |-> <<>>, cells |-> <<>>]

NoResult ==
    [kind |-> "none", msg |-> "", rows |-> <<>>, value |-> None, active_sheet |-> <<>>]

NoLast ==
    [handled |-> FALSE, address |-> <<>>, formula |-> FALSE, calls |-> <<>>,
     loader_called |-> FALSE,
     loaded |-> Returned(None), stored |-> None, value |-> None]

\* raise DataError(...): msg names the check that raised, "lower layer" when the
\* error wraps an exception of a collaborator
Raise(msg) == [NoResult EXCEPT !.kind = "DataError", !.msg = msg]

Init ==
    \E s \in Scenarios :
        /\ file = s.file
        /\ before = s.file
        /\ req = s.req
        /\ pc = "idle"
        /\ wb = [handle |-> "unopened", sheets |-> s.file.sheets]
        /\ loc = NoLocals
        /\ range_data = NoRangeData
        /\ result = NoResult
        /\ last = NoLast

----------------------------------------------------------------------------
\* _evaluate_formula_cell, called on its own

EvaluateFormulaCell ==
    /\ pc = "idle"
    /\ req.op = "_evaluate_formula_cell"
    /\ \E o1 \in EvalOutcomes, o2 \in EvalOutcomes,
          loaded \in {Returned(CachedValue), Returned(None), Raised} :
          LET e == _evaluate_formula_cell(req.evaluator, req.sheet_name,
                       req.cell_address, req.fallback_loader, req.default_value,
                       <<o1, o2>>, loaded)
          IN  /\ result' = [NoResult EXCEPT !.kind = "return", !.value = e.value]
              /\ last' = [handled |-> TRUE, address |-> req.cell_address,
                          formula |-> TRUE, calls |-> e.calls,
                          loader_called |-> e.loader_called, loaded |-> loaded,
                          stored |-> req.default_value, value |-> e.value]
    /\ pc' = "done"
    /\ UNCHANGED <<file, before, req, wb, loc, range_data>>

----------------------------------------------------------------------------
\* read_excel_range

ReadExcelRange ==
    /\ pc = "idle"
    /\ req.op = "read_excel_range"
    /\ \E loads \in BOOLEAN :
          IF ~loads
          THEN /\ result' = Raise("lower layer")
               /\ wb' = wb
          ELSE IF req.sheet_name \notin DOMAIN file.sheets
          THEN /\ result' = Raise("Sheet not found")
               /\ wb' = [wb EXCEPT !.handle = "open"]
          ELSE LET ws == file.sheets[req.sheet_name]
                   r  == ResolveRegion(ws, req.start_cell, req.end_cell, FALSE)
               IN  IF r.kind = "DataError"
                   THEN /\ result' = Raise(r.msg)
                        /\ wb' = [wb EXCEPT !.handle = "open"]
                   ELSE IF r.kind = "empty"
                   THEN /\ result' = [NoResult EXCEPT !.kind = "return"]
                        /\ wb' = [wb EXCEPT !.handle = "open"]
                   ELSE /\ result' = [NoResult EXCEPT !.kind = "return",
                                         !.rows = PlainRows(ws, r.region, r.region.start_row)]
                        /\ wb' = [wb EXCEPT !.handle = "closed"]
    /\ pc' = "done"
    /\ UNCHANGED <<file, before, req, loc, range_data, last>>

----------------------------------------------------------------------------
\* read_excel_range_with_metadata

\* InLoop with the last row left out
InLoop_ShortByOne == loc.row < loc.end_row /\ loc.start_col <= loc.end_col

\* lines 359-360: the loops still have a cell to handle
InLoop == loc.row <= loc.end_row /\ loc.start_col <= loc.end_col

\* lines 259-357: up to the loops
MetaBegin ==
    /\ pc = "idle"
    /\ req.op = "read_excel_range_with_metadata"
    /\ \E loads \in BOOLEAN, installed \in BOOLEAN, compiles \in BOOLEAN :
          IF ~loads
          THEN /\ result' = Raise("lower layer")
               /\ pc' = "done"
               /\ UNCHANGED <<wb, loc, range_data>>
          ELSE LET l0 == IF req.evaluate_formulas
                         THEN [NoLocals EXCEPT
                                 !.formula_evaluator =
                                     _build_formula_evaluator(installed, compiles),
                                 !.fallback_loader = "_get_cached_value"]
                         ELSE NoLocals
               IN  /\ wb' = [wb EXCEPT !.handle = "open"]
                   /\ IF req.sheet_name \notin DOMAIN file.sheets
                      THEN /\ result' = Raise("Sheet not found")
                           /\ pc' = "done"
                           /\ loc' = l0
                           /\ UNCHANGED range_data
                      ELSE LET ws == file.sheets[req.sheet_name]
                               r  == ResolveRegion(ws, req.start_cell, req.end_cell, TRUE)
                               g  == r.region
                           IN  IF r.kind = "DataError"
                               THEN /\ result' = Raise(r.msg)
                                    /\ pc' = "done"
                                    /\ loc' = l0
                                    /\ UNCHANGED range_data
                               ELSE IF r.kind = "empty"
                               THEN /\ result' = [NoResult EXCEPT !.kind = "return"]
                                    /\ pc' = "done"
                                    /\ loc' = [l0 EXCEPT !.start_cell = r.start_cell,
                                                 !.start_row = g.start_row,
                                                 !.start_col = g.start_col,
                                                 !.end_row = g.end_row,
                                                 !.end_col = g.end_col]
                                    /\ range_data' =
                                         [range |-> r.start_cell \o <<":">>,
                                          sheet_name |-> req.sheet_name,
                                          cells |-> <<>>]
                               ELSE /\ result' = result
                                    /\ pc' = "meta_loop"
                                    /\ loc' = [l0 EXCEPT !.start_cell = r.start_cell,
                                                 !.start_row = g.start_row,
                                                 !.start_col = g.start_col,
                                                 !.end_row = g.end_row,
                                                 !.end_col = g.end_col,
                                                 !.row = g.start_row,
                                                 !.col = g.start_col]
                                    /\ range_data' =
                                         [range |-> CellAddress(g.start_row, g.start_col)
                                                      \o <<":">>
                                                      \o CellAddress(g.end_row, g.end_col),
                                          sheet_name |-> req.sheet_name,
                                          cells |-> <<>>]
    /\ UNCHANGED <<file, before, req, last>>

\* What the collaborators can answer while the cell at hand is handled: the
\* evaluator when there is one and the cell is a formula, the data_only
\* workbook when the loader may be called, the validation lookup when asked.
EvaluatorAnswers ==
    IF /\ req.evaluate_formulas
       /\ loc.formula_evaluator # "None"
       /\ FormulaTextOf(CellAt(wb.sheets[req.sheet_name], loc.row, loc.col)) # None
    THEN EvalOutcomes
    ELSE {[kind |-> "return", val |-> None]}

OpenAnswers ==
    IF req.evaluate_formulas /\ loc.wb_values = "None" /\ ~loc.fallback_loader_failed
    THEN {"ok", "IOError", "no_sheet"}
    ELSE {"ok"}

ReadAnswers == IF req.evaluate_formulas THEN BOOLEAN ELSE {TRUE}

ValidationAnswers == IF req.include_validation THEN BOOLEAN ELSE {TRUE}

\* lines 361-405: one cell of the loops.  o1 and o2 are what the evaluator
\* does with the two tokens, opened and readable what the data_only workbook
\* does, validates whether the validation lookup succeeds.
MetaCell ==
    /\ pc = "meta_loop"
    /\ InLoop
    /\ \E o1 \in EvaluatorAnswers, o2 \in EvaluatorAnswers,
          opened \in OpenAnswers, readable \in ReadAnswers,
          validates \in ValidationAnswers :
          LET ws   == wb.sheets[req.sheet_name]
              cell == CellAt(ws, loc.row, loc.col)
              cell_address == CellAddress(loc.row, loc.col)
              formula_text == FormulaTextOf(cell)
              g == _get_cached_value(loc, file.sheets[req.sheet_name],
                                     loc.row, loc.col, opened, readable)
              chain == req.evaluate_formulas /\ formula_text # None
              direct == /\ ~chain
                        /\ req.evaluate_formulas
                        /\ loc.formula_evaluator = "None"
                        /\ loc.fallback_loader # "None"
              e == _evaluate_formula_cell(loc.formula_evaluator, req.sheet_name,
                       cell_address, loc.fallback_loader, formula_text,
                       <<o1, o2>>, g.ret)
              loader_called == (chain /\ e.loader_called) \/ direct
              value == IF chain THEN e.value
                       ELSE IF direct /\ g.ret.kind = "return" /\ g.ret.val # None
                            THEN g.ret.val
                            ELSE cell.value
              raises == \/ direct /\ g.ret.kind = "raise"
                        \/ req.include_validation /\ ~validates
              l1 == IF loader_called THEN g.c ELSE loc
              cell_data == [address |-> cell_address, value |-> value,
                            row |-> loc.row, column |-> loc.col,
                            validation |-> ValidationEntry(req.include_validation,
                                               ws, loc.row, loc.col)]
          IN  /\ last' = [handled |-> TRUE, address |-> cell_address,
                          formula |-> formula_text # None,
                          calls |-> IF chain THEN e.calls ELSE <<>>,
                          loader_called |-> loader_called,
                          loaded |-> IF loader_called THEN g.ret ELSE Returned(None),
                          stored |-> cell.value, value |-> value]
              /\ IF raises
                 THEN /\ result' = Raise("lower layer")
                      /\ pc' = "done"
                      /\ loc' = l1
                      /\ UNCHANGED range_data
                 ELSE /\ result' = result
                      /\ pc' = pc
                      /\ loc' = IF loc.col < loc.end_col
                                THEN [l1 EXCEPT !.col = loc.col + 1]
                                ELSE [l1 EXCEPT !.row = loc.row + 1,
                                                !.col = loc.start_col]
                      /\ range_data' = [range_data EXCEPT
                                          !.cells = Append(@, cell_data)]
    /\ UNCHANGED <<file, before, req, wb>>

\* lines 407-410: after the loops
MetaFinish ==
    /\ pc = "meta_loop"
    /\ ~InLoop
    /\ wb' = [wb EXCEPT !.handle = "closed"]
    /\ loc' = IF loc.wb_values # "None"
              THEN [loc EXCEPT !.values_handle = "closed"]
              ELSE loc
    /\ result' = [NoResult EXCEPT !.kind = "return"]
    /\ pc' = "done"
    /\ UNCHANGED <<file, before, req, range_data, last>>

----------------------------------------------------------------------------
\* write_data

\* lines 227-228: the first position of data at or after (i, j), row-major;
\* row Len(data) + 1 when there is none
RECURSIVE NextPosition(_, _, _)
NextPosition(data, i, j) ==
    IF i > Len(data) THEN <<i, 1>>
    ELSE IF j <= Len(data[i]) THEN <<i, j>>
         ELSE NextPosition(data, i + 1, 1)

\* line 182: wb.create_sheet(sheet_name)
create_sheet(sheets, sheet_name) ==
    [n \in DOMAIN sheets \cup {sheet_name} |->
        IF n \in DOMAIN sheets THEN sheets[n] ELSE NoCells]

\* line 229: worksheet.cell(row=row, column=column, value=val)
SetCell(ws, row, column, val) ==
    [p \in DOMAIN ws \cup {<<row, column>>} |->
        IF p = <<row, column>>
        THEN [value |-> val, data_type |-> "n", cached |-> val]
        ELSE ws[p]]

\* AllCellsSet that lets the save run before the loops have ended
AllCellsSet_Early == loc.row >= 1

\* lines 227-229: the loops of _write_data_to_worksheet have set every cell
AllCellsSet == loc.row > Len(req.data)

\* lines 169-195 and 214-224: up to the loops of _write_data_to_worksheet.
\* loads is whether load_workbook succeeds, creates whether create_sheet does.
WriteBegin ==
    /\ pc = "idle"
    /\ req.op = "write_data"
    /\ \E loads \in BOOLEAN, creates \in BOOLEAN :
          IF req.data = <<>> \/ ~loads
          THEN /\ result' = Raise(IF req.data = <<>> THEN "No data provided"
                                  ELSE "lower layer")
               /\ pc' = "done"
               /\ UNCHANGED <<wb, loc>>
          ELSE LET missing == /\ req.sheet_name # <<>>
                              /\ req.sheet_name \notin DOMAIN file.sheets
                   name  == IF req.sheet_name = <<>> THEN file.active
                            ELSE req.sheet_name
                   start == parse_cell_range(req.start_cell)
                   first == NextPosition(req.data, 1, 1)
               IN  IF (req.sheet_name = <<>> /\ file.active = <<>>)
                      \/ (missing /\ ~creates)
                   THEN /\ result' = Raise(IF missing THEN "lower layer"
                                           ELSE "No active sheet")
                        /\ pc' = "done"
                        /\ wb' = [wb EXCEPT !.handle = "open"]
                        /\ loc' = loc
                   ELSE /\ wb' = [handle |-> "open",
                                  sheets |-> IF missing
                                             THEN create_sheet(wb.sheets, name)
                                             ELSE wb.sheets]
                        /\ IF ~start.ok
                           THEN /\ result' = Raise("Invalid start cell")
                                /\ pc' = "done"
                                /\ loc' = [loc EXCEPT !.sheet_name = name]
                           ELSE /\ result' = result
                                /\ pc' = "write_loop"
                                /\ loc' = [loc EXCEPT !.sheet_name = name,
                                             !.start_row = start.row,
                                             !.start_col = start.col,
                                             !.row = first[1], !.col = first[2]]
    /\ UNCHANGED <<file, before, req, range_data, last>>

\* lines 227-235: one cell of the loops; sets is whether the cell takes the value
WriteCell ==
    /\ pc = "write_loop"
    /\ loc.row <= Len(req.data)
    /\ \E sets \in BOOLEAN :
          IF ~sets
          THEN /\ result' = Raise("lower layer")
               /\ pc' = "done"
               /\ UNCHANGED <<wb, loc>>
          ELSE LET next == NextPosition(req.data, loc.row, loc.col + 1)
               IN  /\ wb' = [wb EXCEPT !.sheets[loc.sheet_name] =
                                SetCell(@, loc.start_row + loc.row - 1,
                                        loc.start_col + loc.col - 1,
                                        req.data[loc.row][loc.col])]
                   /\ loc' = [loc EXCEPT !.row = next[1], !.col = next[2]]
                   /\ UNCHANGED <<result, pc>>
    /\ UNCHANGED <<file, before, req, range_data, last>>

\* lines 197-200: wb.save(filepath), wb.close() and the return; saves is
\* whether save succeeds, and a save that raises leaves the file as it was
WriteSave ==
    /\ pc = "write_loop"
    /\ AllCellsSet
    /\ \E saves \in BOOLEAN :
          IF ~saves
          THEN /\ result' = Raise("lower layer")
               /\ UNCHANGED <<file, wb>>
          ELSE /\ file' = [file EXCEPT !.sheets = wb.sheets]
               /\ wb' = [wb EXCEPT !.handle = "closed"]
               /\ result' = [NoResult EXCEPT !.kind = "return",
                                             !.active_sheet = loc.sheet_name]
    /\ pc' = "done"
    /\ UNCHANGED <<before, req, loc, range_data, last>>

----------------------------------------------------------------------------

Next ==
    \/ EvaluateFormulaCell
    \/ ReadExcelRange
    \/ MetaBegin
    \/ MetaCell
    \/ MetaFinish
    \/ WriteBegin
    \/ WriteCell
    \/ WriteSave

Spec == Init /\ [][Next]_vars

----------------------------------------------------------------------------
\* Properties of the formula resolution chain

\* The chain has just handled a formula cell: _evaluate_formula_cell was
\* called on its own, or by the read for the cell it handled last.
ChainApplied ==
    /\ last.handled
    /\ \/ req.op = "_evaluate_formula_cell"
       \/ /\ req.op = "read_excel_range_with_metadata"
          /\ req.evaluate_formulas
          /\ last.formula

\* the loader the chain was given
ChainLoader ==
    IF req.op = "_evaluate_formula_cell" THEN req.fallback_loader
    ELSE loc.fallback_loader

\* the evaluator calls that returned a value that is not None
ComputedCalls ==
    {k \in 1..Len(last.calls) :
        last.calls[k].outcome.kind = "return" /\ last.calls[k].outcome.val # None}

\* C1: for a formula cell the result is the evaluator's value when the
\* evaluator returned one that is not None; otherwise the cached value when a
\* fallback loader returned one that is not None; otherwise the formula text;
\* and it is never None.
C1_Precedence ==
    ChainApplied =>
        /\ last.value # None
        /\ IF ComputedCalls # {}
           THEN \E k \in ComputedCalls : last.value = last.calls[k].outcome.val
           ELSE IF /\ ChainLoader # "None"
                   /\ last.loaded.kind = "return"
                   /\ last.loaded.val # None
                THEN last.value = last.loaded.val
                ELSE last.value = last.stored

\* C1 happens: the evaluator raised, the loader gave the cached value, and
\* the cached value is the result.
C1_Witness ==
    /\ req.op = "_evaluate_formula_cell"
    /\ pc = "done"
    /\ Len(last.calls) = 1
    /\ last.calls[1].outcome.kind = "Exception"
    /\ last.loaded = Returned(CachedValue)
    /\ result.value = CachedValue

\* the two tokens of the cell the chain handled, written out
PlainToken == req.sheet_name \o <<"!">> \o last.address

QuotedToken == <<"'">> \o DoubleQuotes(req.sheet_name) \o <<"'", "!">> \o last.address

\* what holds of the evaluator calls for one cell whatever made the second
\* call happen: at most two calls, the plain token first, the quoted token
\* second, nothing after an error other than KeyError, and the loader next
\* when no call returned a value
AttemptOrder ==
    /\ Len(last.calls) <= 2
    /\ Len(last.calls) >= 1 => last.calls[1].token = PlainToken
    /\ Len(last.calls) = 2 => last.calls[2].token = QuotedToken
    /\ \A k \in 1..Len(last.calls) :
          last.calls[k].outcome.kind = "Exception" => k = Len(last.calls)
    /\ (ComputedCalls = {} /\ ChainLoader # "None") => last.loader_called

\* C9 as stated: the second call happens only if the first raised KeyError.
C9_SecondOnlyAfterKeyError ==
    ChainApplied =>
        /\ AttemptOrder
        /\ Len(last.calls) = 2 => last.calls[1].outcome.kind = "KeyError"

\* C9 amended: the second call happens only if the first raised KeyError or
\* returned None; the rest of the order is as stated.
C9_SecondAfterKeyErrorOrNone ==
    ChainApplied =>
        /\ AttemptOrder
        /\ Len(last.calls) = 2 =>
              \/ last.calls[1].outcome.kind = "KeyError"
              \/ last.calls[1].outcome = [kind |-> "return", val |-> None]

\* C9 happens: the first call returned None and the quoted token was tried.
C9_Witness ==
    /\ ChainApplied
    /\ Len(last.calls) = 2
    /\ last.calls[1].outcome = [kind |-> "return", val |-> None]
    /\ last.calls[2].token = QuotedToken
    /\ last.calls[2].token # last.calls[1].token

----------------------------------------------------------------------------
\* Properties of the reads

IsRead == req.op \in {"read_excel_range", "read_excel_range_with_metadata"}

IsMeta == req.op = "read_excel_range_with_metadata"

\* the call has ended by returning
ReadReturned == IsRead /\ pc = "done" /\ result.kind = "return"

\* the sheet the read names, when the file has it
ReadSheet == file.sheets[req.sheet_name]

\* the start and the end the caller gave, a start with a colon split in two
GivenRefs == SplitStart(req.start_cell, req.end_cell)

GivenStart == parse_cell_range(GivenRefs.start_cell)

\* C2: when read_excel_range_with_metadata has ended, however it ended, no
\* workbook handle it opened is still open.
C2_HandlesClosed ==
    (IsMeta /\ pc = "done") =>
        /\ wb.handle # "open"
        /\ loc.values_handle # "open"

\* C3: a read with evaluate_formulas of a sheet the workbook has and of a
\* well-formed range, with the workbook opened and no validation lookup to
\* fail, returns a result: nothing the evaluator or the fallback loader does
\* makes it raise.
C3_ChainNeverAborts ==
    ( /\ IsMeta
      /\ pc = "done"
      /\ req.evaluate_formulas
      /\ ~req.include_validation
      /\ wb.handle # "unopened"
      /\ req.sheet_name \in DOMAIN file.sheets
      /\ GivenRefs.ok
      /\ GivenStart.ok
      /\ (GivenRefs.end_cell # <<>> => parse_cell_range(GivenRefs.end_cell).ok) )
    => result.kind = "return"

\* C10: in a read with evaluate_formulas, a cell that is not a formula cell
\* reaches neither the evaluator nor the fallback loader, and its value is
\* the content the cell stores.
C10_OnlyFormulaCells ==
    (IsMeta /\ req.evaluate_formulas /\ last.handled /\ ~last.formula) =>
        /\ last.calls = <<>>
        /\ ~last.loader_called
        /\ last.value = last.stored

\* the state of the values-only handle, from the closure's variables
FallbackState ==
    IF loc.fallback_loader_failed THEN "failed"
    ELSE IF loc.wb_values # "None" THEN "open"
    ELSE "unopened"

\* this step handles a cell and calls the fallback loader for it
LoaderCalledNow ==
    /\ pc = "meta_loop"
    /\ loc'.loads = loc.loads + 1

\* C8: the values-only handle goes from unopened to open or to failed and
\* nowhere else; load_workbook(data_only=True) is called at most once in a
\* request; a loader call in state failed returns None and opens nothing; and
\* in state failed no values-only handle is open.
C8_Step ==
    /\ FallbackState' # FallbackState =>
          /\ FallbackState = "unopened"
          /\ FallbackState' \in {"open", "failed"}
    /\ loc'.opens <= 1
    /\ (FallbackState = "failed" /\ LoaderCalledNow) =>
          /\ last'.loaded = Returned(None)
          /\ loc'.opens = loc.opens
          /\ loc'.values_handle = loc.values_handle
    /\ FallbackState' = "failed" => loc'.values_handle # "open"

C8_StateMachine == [][C8_Step]_vars

\* C8 happens: the open failed on the first loader call, and the loader was
\* called again.
C8_Witness ==
    /\ IsMeta
    /\ FallbackState = "failed"
    /\ loc.opens = 1
    /\ loc.loads >= 2
    /\ last.loader_called

Max0(n) == IF n > 0 THEN n ELSE 0

\* the boundary check of the read found the start outside the sheet
SoftEmpty ==
    \/ loc.start_row > max_row(ReadSheet)
    \/ loc.start_col > max_column(ReadSheet)

\* C4 as stated: an empty sheet read from the default start with no end
\* gives no rows, and in metadata mode no cells and the range of the sole cell.
EmptySheetRead ==
    /\ ReadReturned
    /\ req.sheet_name \in DOMAIN file.sheets
    /\ DOMAIN ReadSheet = {}
    /\ req.start_cell = <<"A", "1">>
    /\ req.end_cell = <<>>

C4_EmptySheetNoCells ==
    EmptySheetRead =>
        IF IsMeta
        THEN range_data.cells = <<>> /\ range_data.range = <<"A", "1", ":", "A", "1">>
        ELSE result.rows = <<>>

\* C4 amended: an empty sheet read from the default start with no end gives
\* no rows, and in metadata mode the range A1:A1 and one cell record, that of
\* A1 with the value None.
C4_EmptySheetOneCell ==
    EmptySheetRead =>
        IF IsMeta
        THEN /\ range_data.range = <<"A", "1", ":", "A", "1">>
             /\ Len(range_data.cells) = 1
             /\ range_data.cells[1].address = <<"A", "1">>
             /\ range_data.cells[1].row = 1
             /\ range_data.cells[1].column = 1
             /\ range_data.cells[1].value = None
        ELSE result.rows = <<>>

C4_Witness == EmptySheetRead /\ IsMeta /\ Len(range_data.cells) = 1

StartBeyond ==
    /\ IsRead
    /\ pc = "done"
    /\ req.sheet_name \in DOMAIN file.sheets
    /\ GivenRefs.ok
    /\ GivenStart.ok
    /\ \/ GivenStart.row > max_row(ReadSheet)
       \/ GivenStart.col > max_column(ReadSheet)

ReadIsEmpty == IF IsMeta THEN range_data.cells = <<>> ELSE result.rows = <<>>

\* C6 as stated: a read whose start is beyond the sheet's maximum bounds
\* returns an empty result, with or without an end cell.
C6_BeyondIsEmpty ==
    (StartBeyond /\ result.kind = "return") => ReadIsEmpty

\* C6 amended: with the start beyond the sheet's maximum bounds,
\* read_excel_range_with_metadata returns an empty result, with or without an
\* end cell; read_excel_range returns an empty result when an end cell is
\* given or the sheet is empty, and with no end cell on a sheet with data it
\* reads from the sheet's minimum and returns the sheet's rows.  Neither
\* raises for the start; what raises is a malformed end cell or a
\* collaborator.
C6_BeyondIsEmptyUnlessSnapped ==
    StartBeyond =>
        /\ result.kind = "DataError" => result.msg \in {"Invalid end cell", "lower layer"}
        /\ (result.kind = "return" /\ IsMeta) => range_data.cells = <<>>
        /\ (result.kind = "return" /\ ~IsMeta) =>
              IF GivenRefs.end_cell # <<>> \/ DOMAIN ReadSheet = {}
              THEN result.rows = <<>>
              ELSE result.rows # <<>>

\* C6 happens: a metadata read with an end cell and a start beyond the bounds
\* returned no cells.
C6_Witness ==
    /\ StartBeyond
    /\ IsMeta
    /\ GivenRefs.end_cell # <<>>
    /\ result.kind = "return"
    /\ range_data.cells = <<>>

----------------------------------------------------------------------------
\* Properties of the writer

IsWrite == req.op = "write_data"

\* every value of the matrix is in its cell of the sheet
MatrixIn(ws) ==
    \A i \in 1..Len(req.data) : \A j \in 1..Len(req.data[i]) :
        CellAt(ws, loc.start_row + i - 1, loc.start_col + j - 1).value = req.data[i][j]

====
